---- MODULE Spec2Model ----
(***************************************************************************)
(* kay/src/compact.rs: the Compact relocation contract, CompactVec and the *)
(* derive_compact! composition, as a state machine.                        *)
(*                                                                         *)
(* Memory is modelled in two spaces.  `heap` holds the typed buffers a     *)
(* vector's handle can point at (one record per allocation, indexed by     *)
(* element); `arena` is the byte-addressed destination memory handed to    *)
(* compact_from.  A released heap buffer keeps its record (live = FALSE) so*)
(* that a handle that still designates it is visibly dangling.             *)
(***************************************************************************)
EXTENDS Integers, Sequences, FiniteSets, TLC

VARIABLES
    vecs,        \* vecs[i]: header {ptr, len, cap} of the i-th CompactVec
    phase,       \* phase[i]: "none" (not constructed), "live", "dropped"
    origin,      \* origin[i]: the constructor that built vecs[i]
    heap,        \* sequence of buffer records, indexed by buffer id
    dsts,        \* dsts[i]: header of the receiver of compact_from for vecs[i]
    redst,       \* header of the receiver of a second compact_from, from dsts[i]
    arena,       \* destination memory: byte address -> byte, for written bytes
    region,      \* [base, size]: the destination dynamic region of the last relocation
    plain,       \* [src, dst]: the trivially relocatable field of the aggregate
    lastOp,      \* the operation the last step performed
    ret,         \* what the last step returned: pop's Option, None otherwise
    lastDealloc, \* what the last maybe_drop did
    pushLog      \* pushLog[i]: the capacity asked for and the values pushed, while
                 \* vecs[i] is new() or with_capacity(n) followed by pushes only

vars == <<vecs, phase, origin, heap, dsts, redst, arena, region, plain, lastOp, ret,
          lastDealloc, pushLog>>

---------------------------------------------------------------------------
(* Bounds *)

MaxVal == 2
MaxCap == 4
MaxWithCap == 3
MaxBackCap == 2
MaxBase == 2
AggMaxCap == 2

Val == 1..MaxVal
Bases == 1..MaxBase

(* Values a memory cell can hold besides an element: overwritten bits, and
   memory never written *)
Junk == MaxVal + 1
Uninit == MaxVal + 2

(* Option<T> as a sequence of at most one value *)
None == <<>>
Some(x) == <<x>>

NullPtr == 0

(* mem::size_of::<T>() for the element type *)
ElemSize == 2

FREE == TRUE
EMBEDDED == FALSE

---------------------------------------------------------------------------
(* TaggedRelativePointer<T>: an address and one tag bit *)

TRP_null(tag) == [addr |-> NullPtr, tag |-> tag]

TRP_set(p, tag) == [addr |-> p, tag |-> tag]

TRP_is_tagged(p) == p.tag

TRP_ptr(p) == p.addr

---------------------------------------------------------------------------
(* Heap buffers *)

NewBuffer(org, count) ==
    [origin |-> org, size |-> count, live |-> TRUE,
     cells |-> [k \in 1..count |-> Uninit]]

EmptyHeap == [p \in {} |-> NewBuffer("none", 0)]

(* The address an allocation returns: the lowest id no buffer record uses *)
FreshId(h) ==
    CHOOSE p \in 1..(Cardinality(DOMAIN h) + 1) :
        /\ p \notin DOMAIN h
        /\ \A q \in 1..(p - 1) : q \in DOMAIN h

AddBuffer(h, b) == [p \in (DOMAIN h) \cup {FreshId(h)} |-> IF p \in DOMAIN h THEN h[p] ELSE b]

(* A::allocate::<T>(count) *)
Allocate(h, count) == AddBuffer(h, NewBuffer("A", count))

(* Vec::<T>::with_capacity(count), from the global allocator *)
VecWithCapacity(h, count) == AddBuffer(h, NewBuffer("Vec", count))

(* Caller-owned memory handed to from_backing *)
CallerBuffer(h, count) == AddBuffer(h, NewBuffer("caller", count))

InBuf(h, p, k) == p \in DOMAIN h /\ k \in 1..h[p].size

(* ptr::read of element k (1-based) behind p; out of the buffer reads junk *)
ReadCell(h, p, k) == IF InBuf(h, p, k) THEN h[p].cells[k] ELSE Junk

(* ptr::write of element k behind p; a write outside the buffer lands elsewhere *)
WriteCell(h, p, k, x) ==
    IF InBuf(h, p, k) THEN [h EXCEPT ![p].cells[k] = x] ELSE h

(* What released memory can hold afterwards: its contents are still there, or
   its initialised cells have been overwritten *)
ReleasedCells(cells) ==
    {cells, [k \in DOMAIN cells |-> IF cells[k] = Uninit THEN Uninit ELSE Junk]}

(* The record of a buffer no handle designates any more is not kept *)
Forget(h, p) == [q \in (DOMAIN h) \ {p} |-> h[q]]

---------------------------------------------------------------------------
(* CompactVec *)

(* Deref: the slice of the first len elements behind the handle *)
Elems(vec, h) == [k \in 1..vec.len |-> ReadCell(h, TRP_ptr(vec.ptr), k)]

VecNew == [ptr |-> TRP_null(EMBEDDED), len |-> 0, cap |-> 0]

VecWithCap(h, cap) ==
    [vec |-> [ptr |-> TRP_set(FreshId(h), FREE), len |-> 0, cap |-> cap],
     heap |-> Allocate(h, cap)]

VecFromBacking(p, len, cap) ==
    [ptr |-> TRP_set(p, EMBEDDED), len |-> len, cap |-> cap]

NoDealloc ==
    [called |-> FALSE, buf |-> NullPtr, count |-> 0, origin |-> "none",
     size |-> 0, wasLive |-> FALSE, dropped |-> <<>>]

(* maybe_drop without the test of the tag *)
MaybeDrop_Always(vec, h) ==
    LET p == TRP_ptr(vec.ptr) IN
    [heap |-> IF p \in DOMAIN h THEN [h EXCEPT ![p].live = FALSE] ELSE h,
     dealloc |-> [called |-> TRUE, buf |-> p, count |-> vec.cap,
                  origin |-> IF p \in DOMAIN h THEN h[p].origin ELSE "none",
                  size |-> IF p \in DOMAIN h THEN h[p].size ELSE 0,
                  wasLive |-> IF p \in DOMAIN h THEN h[p].live ELSE FALSE,
                  dropped |-> Elems(vec, h)]]

(* maybe_drop: the heap and the deallocation record it leaves *)
MaybeDrop(vec, h) ==
    LET p == TRP_ptr(vec.ptr) IN
    IF TRP_is_tagged(vec.ptr) = FREE
    THEN [heap |-> IF p \in DOMAIN h THEN [h EXCEPT ![p].live = FALSE] ELSE h,
          dealloc |-> [called |-> TRUE, buf |-> p, count |-> vec.cap,
                       origin |-> IF p \in DOMAIN h THEN h[p].origin ELSE "none",
                       size |-> IF p \in DOMAIN h THEN h[p].size ELSE 0,
                       wasLive |-> IF p \in DOMAIN h THEN h[p].live ELSE FALSE,
                       dropped |-> Elems(vec, h)]]
    ELSE [heap |-> h, dealloc |-> NoDealloc]

(* The new capacity without the case of capacity 0 *)
NewCap_ZeroStaysZero(cap) == cap * 2

NewCap(cap) == IF cap = 0 THEN 1 ELSE cap * 2

(* ptr::copy_nonoverlapping(src, dst, n) between heap buffers *)
CopyCells(h, src, dst, n) ==
    IF dst \in DOMAIN h
    THEN [h EXCEPT ![dst].cells =
             [k \in 1..h[dst].size |->
                 IF k <= n THEN ReadCell(h, src, k) ELSE h[dst].cells[k]]]
    ELSE h

(* The local `vec` of double_buf goes out of scope: its buffer is released *)
VecScopeEnd(h, p) ==
    {[h EXCEPT ![p].live = FALSE, ![p].cells = c] : c \in ReleasedCells(h[p].cells)}

(* double_buf: the set of outcomes [vec, heap, dealloc] *)
DoubleBuf(vec, h) ==
    LET new_cap == NewCap(vec.cap)
        h1      == VecWithCapacity(h, new_cap)
        new_ptr == FreshId(h)
        old_ptr == TRP_ptr(vec.ptr)
        h2      == CopyCells(h1, old_ptr, new_ptr, vec.len)
        md      == MaybeDrop(vec, h2)
        h3      == Forget(md.heap, old_ptr)
        vec2    == [vec EXCEPT !.ptr = TRP_set(new_ptr, FREE), !.cap = new_cap]
    IN  {[vec |-> vec2, heap |-> h4, dealloc |-> md.dealloc] :
            h4 \in VecScopeEnd(h3, new_ptr)}

(* The growth check off by one: growing when the last free slot is reached *)
GrowIfFull_Early(vec, h) ==
    IF vec.len + 1 >= vec.cap
    THEN DoubleBuf(vec, h)
    ELSE {[vec |-> vec, heap |-> h, dealloc |-> NoDealloc]}

(* The growth step push and insert share: if self.len == self.cap { double_buf } *)
GrowIfFull(vec, h) ==
    IF vec.len = vec.cap
    THEN DoubleBuf(vec, h)
    ELSE {[vec |-> vec, heap |-> h, dealloc |-> NoDealloc]}

(* push after the growth step *)
PushWrite(vec, h, value) ==
    [vec |-> [vec EXCEPT !.len = vec.len + 1],
     heap |-> WriteCell(h, TRP_ptr(vec.ptr), vec.len + 1, value)]

(* pop reading the slot before decrementing len: one past the last element *)
PopResult_ReadPastEnd(vec, h) ==
    IF vec.len = 0
    THEN [vec |-> vec, ret |-> None]
    ELSE [vec |-> [vec EXCEPT !.len = vec.len - 1],
          ret |-> Some(ReadCell(h, TRP_ptr(vec.ptr), vec.len + 1))]

(* pop: the header and the Option it returns *)
PopResult(vec, h) ==
    IF vec.len = 0
    THEN [vec |-> vec, ret |-> None]
    ELSE [vec |-> [vec EXCEPT !.len = vec.len - 1],
          ret |-> Some(ReadCell(h, TRP_ptr(vec.ptr), vec.len))]

(* insert after the growth step; index is 0-based as in the source *)
InsertWrite(vec, h, index, value) ==
    LET p == TRP_ptr(vec.ptr)
        shifted == IF p \in DOMAIN h
                   THEN [h EXCEPT ![p].cells =
                           [k \in 1..h[p].size |->
                              IF k > index + 1 /\ k <= vec.len + 1
                              THEN ReadCell(h, p, k - 1)
                              ELSE h[p].cells[k]]]
                   ELSE h
    IN  [vec |-> [vec EXCEPT !.len = vec.len + 1],
         heap |-> WriteCell(shifted, p, index + 1, value)]

is_still_compact(vec) == TRP_is_tagged(vec.ptr) = EMBEDDED

(* dynamic_size_bytes counting elements, not bytes *)
dynamic_size_bytes_InElements(vec) == vec.cap

(* dynamic_size_bytes computed from the live length *)
dynamic_size_bytes_OfLen(vec) == vec.len * ElemSize

dynamic_size_bytes(vec) == vec.cap * ElemSize

---------------------------------------------------------------------------
(* Destination memory *)

EmptyArena == [a \in {} |-> Junk]

(* The header a compact_from receiver has before the call: nothing valid *)
UninitHeader == [ptr |-> TRP_null(FREE), len |-> 0, cap |-> 0]

(* ptr::copy_nonoverlapping(src, dst, n) from a heap buffer into the arena:
   element k of the source fills the ElemSize bytes from dst + (k-1)*ElemSize *)
ArenaCopy(ar, h, src, dst, n) ==
    LET new == dst..(dst + n * ElemSize - 1) IN
    [a \in (DOMAIN ar) \cup new |->
        IF a \in new THEN ReadCell(h, src, ((a - dst) \div ElemSize) + 1)
        ELSE ar[a]]

(* The element stored in the ElemSize bytes from address a *)
ArenaElem(ar, a) ==
    LET bytes == a..(a + ElemSize - 1) IN
    IF bytes \subseteq DOMAIN ar
    THEN IF \A b \in bytes : ar[b] = ar[a] THEN ar[a] ELSE Junk
    ELSE Uninit

(* Deref of a vector whose storage is in the arena *)
DstElems(d, ar) ==
    [k \in 1..d.len |-> ArenaElem(ar, TRP_ptr(d.ptr) + (k - 1) * ElemSize)]

(* compact_from copying one element too few *)
VecCompactFrom_CopyShort(source, h, ar, new_dynamic_part) ==
    LET self == [ptr |-> TRP_set(new_dynamic_part, EMBEDDED),
                 len |-> source.len, cap |-> source.cap]
    IN  [vec |-> self,
         arena |-> ArenaCopy(ar, h, TRP_ptr(source.ptr), TRP_ptr(self.ptr),
                             IF self.len > 0 THEN self.len - 1 ELSE 0)]

(* compact_from shrinking the capacity to the length *)
VecCompactFrom_ShrinkToFit(source, h, ar, new_dynamic_part) ==
    LET self == [ptr |-> TRP_set(new_dynamic_part, EMBEDDED),
                 len |-> source.len, cap |-> source.len]
    IN  [vec |-> self,
         arena |-> ArenaCopy(ar, h, TRP_ptr(source.ptr), TRP_ptr(self.ptr), self.len)]

(* compact_from copying the source's handle tag instead of tagging EMBEDDED *)
VecCompactFrom_KeepTag(source, h, ar, new_dynamic_part) ==
    LET self == [ptr |-> TRP_set(new_dynamic_part, TRP_is_tagged(source.ptr)),
                 len |-> source.len, cap |-> source.cap]
    IN  [vec |-> self,
         arena |-> ArenaCopy(ar, h, TRP_ptr(source.ptr), TRP_ptr(self.ptr), self.len)]

(* CompactVec::compact_from: the receiver's header and the arena *)
VecCompactFrom(source, h, ar, new_dynamic_part) ==
    LET self == [ptr |-> TRP_set(new_dynamic_part, EMBEDDED),
                 len |-> source.len, cap |-> source.cap]
    IN  [vec |-> self,
         arena |-> ArenaCopy(ar, h, TRP_ptr(source.ptr), TRP_ptr(self.ptr), self.len)]

(* ptr::copy_nonoverlapping(src, dst, n) between two places of the arena *)
ArenaMove(ar, src, dst, n) ==
    LET new == dst..(dst + n * ElemSize - 1) IN
    [a \in (DOMAIN ar) \cup new |->
        IF a \in new
        THEN IF src + (a - dst) \in DOMAIN ar THEN ar[src + (a - dst)] ELSE Uninit
        ELSE ar[a]]

(* compact_from of an embedded source, copying one element too few *)
VecCompactFromEmbedded_CopyShort(source, ar, new_dynamic_part) ==
    LET self == [ptr |-> TRP_set(new_dynamic_part, EMBEDDED),
                 len |-> source.len, cap |-> source.cap]
    IN  [vec |-> self,
         arena |-> ArenaMove(ar, TRP_ptr(source.ptr), TRP_ptr(self.ptr),
                             IF self.len > 0 THEN self.len - 1 ELSE 0)]

(* CompactVec::compact_from for a source whose storage is itself in the arena *)
VecCompactFromEmbedded(source, ar, new_dynamic_part) ==
    LET self == [ptr |-> TRP_set(new_dynamic_part, EMBEDDED),
                 len |-> source.len, cap |-> source.cap]
    IN  [vec |-> self,
         arena |-> ArenaMove(ar, TRP_ptr(source.ptr), TRP_ptr(self.ptr), self.len)]

---------------------------------------------------------------------------
(* derive_compact!: struct { a: CompactVec, n: <Copy type>, b: CompactVec } *)

Fields == <<[kind |-> "vec", i |-> 1], [kind |-> "plain", i |-> 0],
            [kind |-> "vec", i |-> 2]>>

(* A field's dynamic_size_bytes(): the vector's, or 0 for a Copy type *)
FieldDynamicSize(vs, f) ==
    IF f.kind = "vec" THEN dynamic_size_bytes(vs[f.i]) ELSE 0

RECURSIVE SumDynamicSizes(_, _)
SumDynamicSizes(vs, k) ==
    IF k = 0 THEN 0
    ELSE FieldDynamicSize(vs, Fields[k]) + SumDynamicSizes(vs, k - 1)

(* derive_dynamic_size_bytes! *)
AggDynamicSizeBytes(vs) == SumDynamicSizes(vs, Len(Fields))

(* A field's is_still_compact(): the vector's, or true for a Copy type *)
FieldIsStillCompact(vs, f) ==
    IF f.kind = "vec" THEN is_still_compact(vs[f.i]) ELSE TRUE

(* The fold of derive_is_still_compact! with || in place of && *)
RECURSIVE AnyStillCompact(_, _)
AnyStillCompact(vs, k) ==
    IF k > Len(Fields) THEN FALSE
    ELSE FieldIsStillCompact(vs, Fields[k]) \/ AnyStillCompact(vs, k + 1)

AggIsStillCompact_Any(vs) == AnyStillCompact(vs, 1)

RECURSIVE AllStillCompact(_, _)
AllStillCompact(vs, k) ==
    IF k > Len(Fields) THEN TRUE
    ELSE FieldIsStillCompact(vs, Fields[k]) /\ AllStillCompact(vs, k + 1)

(* derive_is_still_compact!: field1 && field2 && ... *)
AggIsStillCompact(vs) == AllStillCompact(vs, 1)

(* The offset advanced by the field's live bytes only *)
AdvanceOffset_ByLen(offset, vs, f) ==
    offset + (IF f.kind = "vec" THEN vs[f.i].len * ElemSize ELSE 0)

(* $offset += $source.$field.dynamic_size_bytes() as isize *)
AdvanceOffset(offset, vs, f) == offset + FieldDynamicSize(vs, f)

(* derive_compact_from!: field k onwards, with the running offset *)
RECURSIVE DeriveCompactFrom(_, _, _, _, _, _)
DeriveCompactFrom(k, offset, vs, pl, h, acc) ==
    IF k > Len(Fields) THEN acc
    ELSE LET f == Fields[k]
             r == VecCompactFrom(vs[f.i], h, acc.arena, acc.base + offset)
             next == IF f.kind = "vec"
                     THEN [acc EXCEPT !.dsts[f.i] = r.vec, !.arena = r.arena]
                     ELSE [acc EXCEPT !.plain = pl]
         IN  DeriveCompactFrom(k + 1, AdvanceOffset(offset, vs, f), vs, pl, h, next)

(* derive_compact!'s compact_from: offset starts at 0 *)
AggCompactFromResult(vs, pl, h, new_dynamic_part) ==
    DeriveCompactFrom(1, 0, vs, pl, h,
        [dsts |-> [i \in DOMAIN vs |-> UninitHeader], arena |-> EmptyArena,
         plain |-> Junk, base |-> new_dynamic_part])

---------------------------------------------------------------------------
(* State machine *)

VecIds == 1..2

Op(name, i, idx, val, grew) ==
    [op |-> name, i |-> i, idx |-> idx, val |-> val, grew |-> grew]

NoLog == [valid |-> FALSE, vals |-> <<>>, cap0 |-> 0]

NoRegion == [base |-> 0, size |-> 0]

Init ==
    /\ vecs = [i \in VecIds |-> VecNew]
    /\ phase = [i \in VecIds |-> "none"]
    /\ origin = [i \in VecIds |-> "none"]
    /\ heap = EmptyHeap
    /\ dsts = [i \in VecIds |-> UninitHeader]
    /\ redst = UninitHeader
    /\ arena = EmptyArena
    /\ region = NoRegion
    /\ plain = [src |-> 1, dst |-> Junk]
    /\ lastOp = Op("init", 0, 0, 0, FALSE)
    /\ ret = None
    /\ lastDealloc = NoDealloc
    /\ pushLog = [i \in VecIds |-> NoLog]

(* An operation on a vector ends the observation of the last destination
   block, which belongs to the compaction driver *)
NoDestination ==
    /\ dsts' = [i \in VecIds |-> UninitHeader]
    /\ redst' = UninitHeader
    /\ arena' = EmptyArena
    /\ region' = NoRegion
    /\ plain' = [plain EXCEPT !.dst = Junk]

(* CompactVec::new() *)
New(i) ==
    /\ phase[i] = "none"
    /\ vecs' = [vecs EXCEPT ![i] = VecNew]
    /\ phase' = [phase EXCEPT ![i] = "live"]
    /\ origin' = [origin EXCEPT ![i] = "new"]
    /\ pushLog' = [pushLog EXCEPT ![i] = [valid |-> TRUE, vals |-> <<>>, cap0 |-> 0]]
    /\ lastOp' = Op("new", i, 0, 0, FALSE)
    /\ lastDealloc' = NoDealloc
    /\ NoDestination
    /\ ret' = None
    /\ UNCHANGED heap

(* CompactVec::with_capacity(cap) *)
WithCapacity(i, cap) ==
    /\ phase[i] = "none"
    /\ LET r == VecWithCap(heap, cap) IN
        /\ vecs' = [vecs EXCEPT ![i] = r.vec]
        /\ heap' = r.heap
    /\ phase' = [phase EXCEPT ![i] = "live"]
    /\ origin' = [origin EXCEPT ![i] = "with_capacity"]
    /\ pushLog' = [pushLog EXCEPT ![i] = [valid |-> TRUE, vals |-> <<>>, cap0 |-> cap]]
    /\ lastOp' = Op("with_capacity", i, 0, 0, FALSE)
    /\ lastDealloc' = NoDealloc
    /\ NoDestination
    /\ ret' = None

(* CompactVec::from_backing(ptr, len, cap) over caller memory whose first len
   elements are constructed values *)
FromBacking(i, cap, contents) ==
    /\ phase[i] = "none"
    /\ Len(contents) <= cap
    /\ LET h1 == CallerBuffer(heap, cap)
           p  == FreshId(heap)
       IN  /\ heap' = [h1 EXCEPT ![p].cells =
                          [k \in 1..cap |->
                              IF k <= Len(contents) THEN contents[k] ELSE Uninit]]
           /\ vecs' = [vecs EXCEPT ![i] = VecFromBacking(p, Len(contents), cap)]
    /\ phase' = [phase EXCEPT ![i] = "live"]
    /\ origin' = [origin EXCEPT ![i] = "from_backing"]
    /\ lastOp' = Op("from_backing", i, 0, 0, FALSE)
    /\ lastDealloc' = NoDealloc
    /\ NoDestination
    /\ ret' = None
    /\ UNCHANGED pushLog

(* The model stops growing a vector whose next capacity would exceed bound *)
MayAdd(vec, bound) == vec.len = vec.cap => NewCap(vec.cap) <= bound

(* CompactVec::push(value) *)
Push(i, value, bound) ==
    /\ phase[i] = "live"
    /\ MayAdd(vecs[i], bound)
    /\ \E g \in GrowIfFull(vecs[i], heap) :
        LET w == PushWrite(g.vec, g.heap, value) IN
        /\ vecs' = [vecs EXCEPT ![i] = w.vec]
        /\ heap' = w.heap
        /\ lastDealloc' = g.dealloc
    /\ lastOp' = Op("push", i, 0, 0, vecs[i].len = vecs[i].cap)
    /\ pushLog' = [pushLog EXCEPT ![i] =
                     IF @.valid THEN [@ EXCEPT !.vals = Append(@, value)] ELSE @]
    /\ NoDestination
    /\ ret' = None
    /\ UNCHANGED <<phase, origin>>

(* CompactVec::pop() *)
Pop(i) ==
    /\ phase[i] = "live"
    /\ LET r == PopResult(vecs[i], heap) IN
        /\ vecs' = [vecs EXCEPT ![i] = r.vec]
        /\ ret' = r.ret
    /\ lastOp' = Op("pop", i, 0, 0, FALSE)
    /\ lastDealloc' = NoDealloc
    /\ pushLog' = [pushLog EXCEPT ![i] = NoLog]
    /\ NoDestination
    /\ UNCHANGED <<phase, origin, heap>>

(* CompactVec::insert(index, value), index <= len *)
Insert(i, index, value, bound) ==
    /\ phase[i] = "live"
    /\ index <= vecs[i].len
    /\ MayAdd(vecs[i], bound)
    /\ \E g \in GrowIfFull(vecs[i], heap) :
        LET w == InsertWrite(g.vec, g.heap, index, value) IN
        /\ vecs' = [vecs EXCEPT ![i] = w.vec]
        /\ heap' = w.heap
        /\ lastDealloc' = g.dealloc
    /\ lastOp' = Op("insert", i, index, value, vecs[i].len = vecs[i].cap)
    /\ pushLog' = [pushLog EXCEPT ![i] = NoLog]
    /\ NoDestination
    /\ ret' = None
    /\ UNCHANGED <<phase, origin>>

(* Drop for CompactVec *)
Drop(i) ==
    /\ phase[i] = "live"
    /\ LET md == MaybeDrop(vecs[i], heap) IN
        /\ heap' = md.heap
        /\ lastDealloc' = md.dealloc
    /\ phase' = [phase EXCEPT ![i] = "dropped"]
    /\ lastOp' = Op("drop", i, 0, 0, FALSE)
    /\ NoDestination
    /\ ret' = None
    /\ UNCHANGED <<vecs, origin, pushLog>>

(* dst.compact_from(&vecs[i], base) into a fresh destination region of exactly
   vecs[i].dynamic_size_bytes() bytes *)
CompactFrom(i, base) ==
    /\ phase[i] = "live"
    /\ LET r == VecCompactFrom(vecs[i], heap, EmptyArena, base) IN
        /\ dsts' = [j \in VecIds |-> IF j = i THEN r.vec ELSE UninitHeader]
        /\ arena' = r.arena
    /\ region' = [base |-> base, size |-> dynamic_size_bytes(vecs[i])]
    /\ plain' = [plain EXCEPT !.dst = Junk]
    /\ redst' = UninitHeader
    /\ lastOp' = Op("compact_from", i, 0, 0, FALSE)
    /\ lastDealloc' = NoDealloc
    /\ ret' = None
    /\ UNCHANGED <<vecs, phase, origin, heap, pushLog>>

(* The aggregate's compact_from into a fresh destination region of exactly
   its dynamic_size_bytes() bytes *)
AggCompactFrom(base) ==
    /\ \A i \in VecIds : phase[i] = "live"
    /\ LET r == AggCompactFromResult(vecs, plain.src, heap, base) IN
        /\ dsts' = r.dsts
        /\ arena' = r.arena
        /\ plain' = [plain EXCEPT !.dst = r.plain]
    /\ region' = [base |-> base, size |-> AggDynamicSizeBytes(vecs)]
    /\ redst' = UninitHeader
    /\ lastOp' = Op("agg_compact_from", 0, 0, 0, FALSE)
    /\ lastDealloc' = NoDealloc
    /\ ret' = None
    /\ UNCHANGED <<vecs, phase, origin, heap, pushLog>>

(* v2.compact_from(&dsts[i], B2) right after dsts[i] was relocated: B2 is a
   second region of the arena, gap bytes past the end of the first *)
Recompact(i, gap) ==
    /\ lastOp.op = "compact_from"
    /\ lastOp.i = i
    /\ LET r == VecCompactFromEmbedded(dsts[i], arena,
                                       region.base + region.size + gap) IN
        /\ redst' = r.vec
        /\ arena' = r.arena
    /\ lastOp' = Op("recompact", i, 0, 0, FALSE)
    /\ lastDealloc' = NoDealloc
    /\ ret' = None
    /\ UNCHANGED <<vecs, phase, origin, heap, dsts, region, plain, pushLog>>

(* The contents from_backing can be given *)
Contents(cap) == UNION {[1..n -> Val] : n \in 0..cap}

(* One vector, through its whole life *)
Next ==
    \/ New(1)
    \/ \E cap \in 0..MaxWithCap : WithCapacity(1, cap)
    \/ \E cap \in 0..MaxBackCap : \E c \in Contents(cap) : FromBacking(1, cap, c)
    \/ \E x \in Val : Push(1, x, MaxCap)
    \/ Pop(1)
    \/ \E x \in Val : \E index \in 0..MaxCap : Insert(1, index, x, MaxCap)
    \/ Drop(1)
    \/ \E base \in Bases : CompactFrom(1, base)
    \/ \E gap \in Bases : Recompact(1, gap)

Spec == Init /\ [][Next]_vars

(* The aggregate { a: vecs[1], n: plain, b: vecs[2] }; field i is filled with
   the value i, so that the tails of the two fields differ *)
NextAgg ==
    \/ \E i \in VecIds : New(i)
    \/ \E i \in VecIds : \E cap \in 0..AggMaxCap : WithCapacity(i, cap)
    \/ \E i \in VecIds : Push(i, i, AggMaxCap)
    \/ \E i \in VecIds : Pop(i)
    \/ \E i \in VecIds : \E index \in 0..AggMaxCap : Insert(i, index, i, AggMaxCap)
    \/ \E i \in VecIds : \E base \in Bases : CompactFrom(i, base)
    \/ \E base \in Bases : AggCompactFrom(base)

SpecAgg == Init /\ [][NextAgg]_vars

---------------------------------------------------------------------------
(* Properties *)

Relocated(i) == lastOp.op = "compact_from" /\ lastOp.i = i

(* The handle of a vector in the free state designates an allocated buffer *)
StorageValid(vec, h) ==
    TRP_is_tagged(vec.ptr) = EMBEDDED
    \/ (TRP_ptr(vec.ptr) \in DOMAIN h /\ h[TRP_ptr(vec.ptr)].live)

(* C1: after dst.compact_from(&src, buf), for a source with len <= cap in the
   embedded or the free state, dst is in the embedded state, dst.len() equals
   src.len() and dst's elements equal src's elements one by one. *)
C1_Equivalence ==
    \A i \in VecIds :
        (Relocated(i) /\ vecs[i].len <= vecs[i].cap) =>
            /\ is_still_compact(dsts[i])
            /\ dsts[i].len = vecs[i].len
            /\ DstElems(dsts[i], arena) = Elems(vecs[i], heap)

C1_Witness ==
    /\ Relocated(1)
    /\ ~is_still_compact(vecs[1])
    /\ StorageValid(vecs[1], heap)
    /\ vecs[1].len = 2 /\ vecs[1].cap = 3
    /\ DstElems(dsts[1], arena) = <<1, 2>>

(* The capacity n pushes from new() lead to: the smallest of 0, 1, 2, 4, ...
   that is >= n *)
RECURSIVE DoublingCap(_, _)
DoublingCap(n, c) ==
    IF c >= n THEN c ELSE DoublingCap(n, IF c = 0 THEN 1 ELSE 2 * c)

(* C2: after n pushes from new(), len() == n, the capacity is the smallest
   value of 0, 1, 2, 4, ... that is >= n, and the vector reads back exactly the
   n pushed values in push order. *)
C2_GrowthLaw ==
    \A i \in VecIds :
        (phase[i] = "live" /\ origin[i] = "new" /\ pushLog[i].valid) =>
            /\ vecs[i].len = Len(pushLog[i].vals)
            /\ vecs[i].cap = DoublingCap(Len(pushLog[i].vals), 0)
            /\ Elems(vecs[i], heap) = pushLog[i].vals

(* C3 as stated: a freshly relocated vector is embedded with capacity ==
   length. *)
C3_NoSlack ==
    \A i \in VecIds :
        Relocated(i) =>
            /\ is_still_compact(dsts[i])
            /\ dsts[i].cap = dsts[i].len

(* C3 amended: a freshly relocated vector is embedded and has exactly the
   slack of its source: capacity - length is the source's capacity - length,
   so capacity == length only when the source had no slack. *)
C3_SlackPreserved ==
    \A i \in VecIds :
        Relocated(i) =>
            /\ is_still_compact(dsts[i])
            /\ dsts[i].cap - dsts[i].len = vecs[i].cap - vecs[i].len
            /\ (dsts[i].cap = dsts[i].len) <=> (vecs[i].cap = vecs[i].len)

C3_Witness ==
    /\ Relocated(1)
    /\ is_still_compact(dsts[1])
    /\ dsts[1].len = 1
    /\ dsts[1].cap = 4

(* C4: dynamic_size_bytes() is capacity * element_size, and compact_from
   keeps the capacity: dst's capacity and dynamic_size_bytes() equal src's. *)
C4_CapacityPreserved ==
    \A i \in VecIds :
        /\ phase[i] = "live" => dynamic_size_bytes(vecs[i]) = vecs[i].cap * ElemSize
        /\ Relocated(i) =>
            /\ dsts[i].cap = vecs[i].cap
            /\ dynamic_size_bytes(dsts[i]) = dsts[i].cap * ElemSize
            /\ dynamic_size_bytes(dsts[i]) = dynamic_size_bytes(vecs[i])

C4_Witness ==
    /\ Relocated(1)
    /\ vecs[1].len = 1
    /\ vecs[1].cap = 3
    /\ dynamic_size_bytes(dsts[1]) = 3 * ElemSize

(* The bytes of the destination dynamic region *)
RegionBytes == region.base..(region.base + region.size - 1)

(* C5: relocating a vector (reached by new/with_capacity/push/pop/insert) or
   an aggregate of such vectors into a region of exactly its
   dynamic_size_bytes() bytes writes no byte outside that region. *)
C5_SizeExactness ==
    lastOp.op \in {"compact_from", "agg_compact_from"} =>
        DOMAIN arena \subseteq RegionBytes

C5_Witness ==
    /\ lastOp.op = "agg_compact_from"
    /\ vecs[1].len = 2 /\ vecs[1].cap = 2
    /\ vecs[2].len = 1 /\ vecs[2].cap = 1
    /\ DOMAIN arena = RegionBytes
    /\ region.size = 3 * ElemSize

(* The element at 0-based index k of a sequence *)
At(s, k) == s[k + 1]

(* C6: pop() on a vector of length k > 0 returns the element that was at
   index k-1 and reduces the length to k-1, leaving the elements at indices
   0..k-2, the capacity and the storage state unchanged; pop() on a vector of
   length 0 returns None and leaves length, capacity, storage state and
   storage unchanged. *)
C6_Pop ==
    [][\A i \in VecIds :
        (lastOp'.op = "pop" /\ lastOp'.i = i) =>
            LET old == Elems(vecs[i], heap)
                k   == vecs[i].len
            IN  IF k > 0
                THEN /\ ret' = Some(At(old, k - 1))
                     /\ vecs'[i].len = k - 1
                     /\ Elems(vecs'[i], heap') = SubSeq(old, 1, k - 1)
                     /\ vecs'[i].cap = vecs[i].cap
                     /\ vecs'[i].ptr = vecs[i].ptr
                ELSE /\ ret' = None
                     /\ vecs'[i] = vecs[i]
                     /\ heap' = heap]_vars

C6_Witness ==
    /\ lastOp.op = "pop"
    /\ ret = Some(2)
    /\ vecs[1].len = 2
    /\ vecs[1].cap = 3
    /\ Elems(vecs[1], heap) = <<1, 1>>

(* s with x spliced in at 0-based index i *)
Splice(s, i, x) == SubSeq(s, 1, i) \o <<x>> \o SubSeq(s, i + 1, Len(s))

(* C7: insert(i, x) with 0 <= i <= len on contents s yields s[0..i), x,
   s[i..len) with length len + 1, both when len < cap and when len == cap. *)
C7_Insert ==
    [][\A i \in VecIds :
        (lastOp'.op = "insert" /\ lastOp'.i = i) =>
            /\ vecs'[i].len = vecs[i].len + 1
            /\ Elems(vecs'[i], heap') =
                   Splice(Elems(vecs[i], heap), lastOp'.idx, lastOp'.val)]_vars

(* C8: destroying a vector releases its backing storage iff the vector is in
   the free state: in the free state drop destroys the len live elements and
   calls deallocate for the buffer of cap elements; in the embedded state it
   releases nothing and destroys no element. *)
C8_DropReleasesIffFree ==
    [][\A i \in VecIds :
        (lastOp'.op = "drop" /\ lastOp'.i = i) =>
            /\ lastDealloc'.called <=> ~is_still_compact(vecs[i])
            /\ ~is_still_compact(vecs[i]) =>
                /\ lastDealloc'.buf = TRP_ptr(vecs[i].ptr)
                /\ lastDealloc'.count = vecs[i].cap
                /\ lastDealloc'.size = vecs[i].cap
                /\ lastDealloc'.dropped = Elems(vecs[i], heap)
                /\ Len(lastDealloc'.dropped) = vecs[i].len
                /\ ~heap'[TRP_ptr(vecs[i].ptr)].live
            /\ is_still_compact(vecs[i]) =>
                /\ lastDealloc'.dropped = <<>>
                /\ heap' = heap]_vars

C8_Witness ==
    /\ lastOp.op = "drop"
    /\ origin[1] = "with_capacity"
    /\ lastDealloc.called
    /\ lastDealloc.wasLive
    /\ lastDealloc.count = 3
    /\ lastDealloc.dropped = <<1, 2>>

(* C9: every deallocate(pointer, count) the vector issues is for a buffer
   obtained from the same allocator's allocate(count) with the same count and
   not released before. *)
C9_AllocatorPairing ==
    lastDealloc.called =>
        /\ lastDealloc.origin = "A"
        /\ lastDealloc.size = lastDealloc.count
        /\ lastDealloc.wasLive

(* The destination range of the vector field i of the aggregate *)
FieldRange(i) ==
    TRP_ptr(dsts[i].ptr)..(TRP_ptr(dsts[i].ptr) + vecs[i].cap * ElemSize - 1)

(* C10: the aggregate's compact_from(source, base) relocates each field's
   dynamic tail to base + the sum of the dynamic sizes of the fields declared
   before it; the destination ranges are pairwise disjoint, in declaration
   order, and together cover exactly [base, base + dynamic_size_bytes()). *)
C10_FieldLayout ==
    lastOp.op = "agg_compact_from" =>
        /\ TRP_ptr(dsts[1].ptr) = region.base
        /\ TRP_ptr(dsts[2].ptr) = region.base + vecs[1].cap * ElemSize
        /\ FieldRange(1) \cap FieldRange(2) = {}
        /\ \A a \in FieldRange(1) : \A b \in FieldRange(2) : a < b
        /\ FieldRange(1) \cup FieldRange(2) =
               region.base..(region.base + (vecs[1].cap + vecs[2].cap) * ElemSize - 1)
        /\ \A i \in VecIds : DstElems(dsts[i], arena) = Elems(vecs[i], heap)

C10_Witness ==
    /\ lastOp.op = "agg_compact_from"
    /\ region.base = 2
    /\ vecs[1].len = 1 /\ vecs[1].cap = 2
    /\ vecs[2].len = 2 /\ vecs[2].cap = 2
    /\ TRP_ptr(dsts[2].ptr) = 2 + 2 * ElemSize

(* C11: the aggregate's dynamic_size_bytes() is the sum of its fields'
   dynamic_size_bytes() (0 for the trivially relocatable field), its
   is_still_compact() is true exactly when every field's is, and after the
   aggregate's compact_from its is_still_compact() is true. *)
C11_AggregateComposition ==
    (\A i \in VecIds : phase[i] = "live") =>
        /\ AggDynamicSizeBytes(vecs) =
               vecs[1].cap * ElemSize + 0 + vecs[2].cap * ElemSize
        /\ AggIsStillCompact(vecs) <=>
               (\A i \in VecIds : TRP_is_tagged(vecs[i].ptr) = EMBEDDED)
        /\ lastOp.op = "agg_compact_from" =>
               /\ AggIsStillCompact(dsts)
               /\ AggDynamicSizeBytes(dsts) = AggDynamicSizeBytes(vecs)
               /\ plain.dst = plain.src

C11_Witness ==
    /\ lastOp.op = "agg_compact_from"
    /\ is_still_compact(vecs[1])
    /\ ~is_still_compact(vecs[2])
    /\ ~AggIsStillCompact(vecs)
    /\ AggIsStillCompact(dsts)
    /\ AggDynamicSizeBytes(vecs) = 2 * ElemSize

(* C12: a vector built by from_backing(ptr, len, cap) with len <= cap stays in
   the embedded state, at the same backing address and with the same capacity,
   through every push, pop and insert that does not add an element when the
   length has reached the capacity. *)
C12_FromBackingStaysEmbedded ==
    [][\A i \in VecIds :
        /\ (lastOp'.op = "from_backing" /\ lastOp'.i = i) =>
               /\ is_still_compact(vecs'[i])
               /\ vecs'[i].len <= vecs'[i].cap
               /\ heap'[TRP_ptr(vecs'[i].ptr)].origin = "caller"
        /\ ( /\ origin[i] = "from_backing"
             /\ phase[i] = "live"
             /\ is_still_compact(vecs[i])
             /\ lastOp'.i = i
             /\ \/ lastOp'.op = "pop"
                \/ /\ lastOp'.op \in {"push", "insert"}
                   /\ vecs[i].len < vecs[i].cap ) =>
               /\ is_still_compact(vecs'[i])
               /\ TRP_ptr(vecs'[i].ptr) = TRP_ptr(vecs[i].ptr)
               /\ vecs'[i].cap = vecs[i].cap
               /\ heap'[TRP_ptr(vecs'[i].ptr)].origin = "caller"]_vars

C12_Witness ==
    /\ origin[1] = "from_backing"
    /\ lastOp.op = "insert"
    /\ is_still_compact(vecs[1])
    /\ vecs[1].len = 2
    /\ vecs[1].cap = 2
    /\ heap[TRP_ptr(vecs[1].ptr)].origin = "caller"

(* s without the element at 0-based index i *)
Remove(s, i) == SubSeq(s, 1, i) \o SubSeq(s, i + 2, Len(s))

(* The 0-based index at which the last push or insert put its element *)
AddedAt(op, len) == IF op.op = "push" THEN len ELSE op.idx

(* C13, the state and capacity after a growth and what it releases: a push or
   insert at len == cap leaves the vector in the free state with capacity 1
   (from 0) or twice the old capacity, and calls deallocate for the old
   storage exactly when the vector was in the free state before. *)
GrowthStateAndRelease(i) ==
    /\ ~is_still_compact(vecs'[i])
    /\ vecs'[i].cap = (IF vecs[i].cap = 0 THEN 1 ELSE 2 * vecs[i].cap)
    /\ lastDealloc'.called <=> ~is_still_compact(vecs[i])
    /\ lastDealloc'.called => lastDealloc'.buf = TRP_ptr(vecs[i].ptr)

(* C13: growth (a push or insert executed when len == cap) leaves the vector
   in the free state with capacity 1 if the old capacity was 0 and twice the
   old capacity otherwise, with the first len elements preserved in order;
   the old storage is released only if the vector was in the free state
   before, and embedded storage grown away from is never released. *)
C13_Growth ==
    [][\A i \in VecIds :
        (lastOp'.grew /\ lastOp'.i = i) =>
            /\ GrowthStateAndRelease(i)
            /\ vecs'[i].len = vecs[i].len + 1
            /\ Remove(Elems(vecs'[i], heap'), AddedAt(lastOp', vecs[i].len)) =
                   Elems(vecs[i], heap)]_vars

(* C14: whenever the vector is in the free state, its handle designates a
   buffer that is currently allocated, with room for exactly cap elements. *)
C14_FreeStorageAllocated ==
    \A i \in VecIds :
        (phase[i] = "live" /\ ~is_still_compact(vecs[i])) =>
            /\ TRP_ptr(vecs[i].ptr) \in DOMAIN heap
            /\ heap[TRP_ptr(vecs[i].ptr)].live
            /\ heap[TRP_ptr(vecs[i].ptr)].size = vecs[i].cap

(* C15: an element is destroyed at most once and never while it is a live
   element: push, insert (growth included) and pop run no element destructor,
   and the destruction of a vector in the free state destroys its len live
   elements, each once. *)
C15_ElementsDestroyedOnce ==
    /\ lastOp.op \in {"push", "insert", "pop"} => lastDealloc.dropped = <<>>
    /\ \A i \in VecIds :
        (lastOp.op = "drop" /\ lastOp.i = i /\ ~is_still_compact(vecs[i])) =>
            /\ Len(lastDealloc.dropped) = vecs[i].len
            /\ lastDealloc.dropped = Elems(vecs[i], heap)

(* C16: length <= capacity in every state reached from new() or
   with_capacity(n) by push, pop and insert (index <= len), and compact_from
   gives its receiver length <= capacity whenever the source has it. *)
C16_LenWithinCap ==
    \A i \in VecIds :
        /\ phase[i] = "live" => vecs[i].len <= vecs[i].cap
        /\ (Relocated(i) /\ vecs[i].len <= vecs[i].cap) =>
               dsts[i].len <= dsts[i].cap

C16_Witness ==
    /\ Relocated(1)
    /\ origin[1] = "new"
    /\ vecs[1].len = 3 /\ vecs[1].cap = 4
    /\ dsts[1].len = 3 /\ dsts[1].cap = 4

(* C17 without the contents: the state, length and capacity after
   with_capacity(n) and pushes, and the state after new() *)
ConstructionShape(i) ==
    /\ (origin[i] = "with_capacity" /\ pushLog[i].valid) =>
        /\ ~is_still_compact(vecs[i])
        /\ vecs[i].len = Len(pushLog[i].vals)
        /\ Len(pushLog[i].vals) <= pushLog[i].cap0 =>
            /\ vecs[i].cap = pushLog[i].cap0
            /\ heap[TRP_ptr(vecs[i].ptr)].origin = "A"
        /\ (pushLog[i].cap0 = 0 /\ Len(pushLog[i].vals) = 3) => vecs[i].cap = 4
    /\ (origin[i] = "new" /\ pushLog[i].valid /\ pushLog[i].vals = <<>>) =>
        /\ vecs[i].len = 0
        /\ vecs[i].cap = 0
        /\ is_still_compact(vecs[i])
        /\ TRP_ptr(vecs[i].ptr) = NullPtr
        /\ heap = EmptyHeap

(* C17: with_capacity(n), n >= 0, returns an empty vector with capacity n in
   the free state, and the next k <= n pushes cause no growth; with n = 0,
   three pushes give len() == 3, capacity 4, the three values in order and the
   free state; new() gives an empty vector with capacity 0 in the embedded
   state without any allocation. *)
C17_Construction ==
    \A i \in VecIds :
        phase[i] = "live" =>
            /\ ConstructionShape(i)
            /\ (origin[i] = "with_capacity" /\ pushLog[i].valid) =>
                   Elems(vecs[i], heap) = pushLog[i].vals

(* C18: relocating v into B1 to get v1 and then the embedded v1 into another
   buffer B2 to get v2 gives v2 the length, capacity, embedded state and
   elements of v1, and v2's contents equal v's contents. *)
C18_ReEmbedding ==
    \A i \in VecIds :
        (lastOp.op = "recompact" /\ lastOp.i = i) =>
            /\ redst.len = dsts[i].len
            /\ redst.cap = dsts[i].cap
            /\ is_still_compact(dsts[i])
            /\ is_still_compact(redst)
            /\ TRP_ptr(redst.ptr) # TRP_ptr(dsts[i].ptr)
            /\ DstElems(redst, arena) = DstElems(dsts[i], arena)
            /\ DstElems(redst, arena) = Elems(vecs[i], heap)

C18_Witness ==
    /\ lastOp.op = "recompact"
    /\ StorageValid(vecs[1], heap)
    /\ redst.len = 2
    /\ redst.cap = 3
    /\ DstElems(redst, arena) = <<2, 1>>
    /\ DstElems(dsts[1], arena) = <<2, 1>>

(* C19: during growth the len live elements are copied out of the old storage
   while it is still allocated: when double_buf copies at least one element,
   the buffer it reads from has not been released before, so old and new
   buffer are both allocated during the copy and the old one is released
   only afterwards. *)
C19_CopyBeforeRelease ==
    [][\A i \in VecIds :
        (lastOp'.grew /\ lastOp'.i = i /\ vecs[i].len > 0) =>
            StorageValid(vecs[i], heap)]_vars

(* C20: dst.compact_from(&src, buf) leaves src untouched: its length,
   capacity, storage state, backing storage and elements are unchanged and
   nothing is released; afterwards destroying dst releases nothing, and
   destroying src releases src's buffer iff src is in the free state. *)
C20_SourceUntouched ==
    [][\A i \in VecIds :
        (lastOp'.op = "compact_from" /\ lastOp'.i = i) =>
            /\ vecs'[i] = vecs[i]
            /\ phase'[i] = phase[i]
            /\ heap' = heap
            /\ Elems(vecs'[i], heap') = Elems(vecs[i], heap)
            /\ ~lastDealloc'.called
            /\ ~MaybeDrop(dsts'[i], heap').dealloc.called
            /\ MaybeDrop(vecs'[i], heap').dealloc.called <=> ~is_still_compact(vecs[i])
            /\ ~is_still_compact(vecs[i]) =>
                   MaybeDrop(vecs'[i], heap').dealloc.buf = TRP_ptr(vecs[i].ptr)]_vars

C20_Witness ==
    /\ Relocated(1)
    /\ origin[1] = "with_capacity"
    /\ ~is_still_compact(vecs[1])
    /\ heap[TRP_ptr(vecs[1].ptr)].live
    /\ heap[TRP_ptr(vecs[1].ptr)].origin = "A"
    /\ vecs[1].cap = 3
    /\ Elems(vecs[1], heap) = <<1, 2>>
    /\ is_still_compact(dsts[1])
    /\ ~MaybeDrop(dsts[1], heap).dealloc.called

====
